---- MODULE Spec2Model ----
(***************************************************************************)
(* Model of powerball/analyzer.py: the SQLite store of lottery draws (the  *)
(* 'dates' ledger and the 'draws' result table), add_draw, the synthetic   *)
(* generator simulate_and_add_draws and the three read-only queries.       *)
(*                                                                         *)
(* A table is the set of its rows; a row is a record of its columns.       *)
(* A date is the number of weeks since 2020-01-01 (the generator's         *)
(* start_date + timedelta(weeks=i), formatted injectively by strftime).    *)
(***************************************************************************)
EXTENDS Integers, Sequences, FiniteSets, TLC

VARIABLES
    dates,            \* table 'dates': rows [id, draw_date, is_powerball_plus, draw_sequence_num]
    draws,            \* table 'draws': rows [id, date_id, main, powerball_num]
    sqlite_sequence,  \* AUTOINCREMENT counters of the two tables
    sim,              \* position of simulate_and_add_draws: [active, i, n, current_draw_seq_num]
    outcome,          \* what the most recent add_draw reported: "success", "skipped" or "failed" ("none" before any call)
    error,            \* the exception class behind that report
    date_id           \* the ledger identity that call resolved (NULL when the lookup found no row)

vars == <<dates, draws, sqlite_sequence, sim, outcome, error, date_id>>

-----------------------------------------------------------------------------
(* Bounds of the model *)

\* dates range over weeks 0 .. MaxDates-1
MaxDates == 2
\* caller-supplied sequence numbers range over 1 .. MaxSeq (and NULL)
MaxSeq == 2
\* add_draw is called at most MaxCalls times in a run
MaxCalls == 2

-----------------------------------------------------------------------------
(* Values *)

\* Python None / SQL NULL; every real value of the model is >= 0
NULL == -1

\* sorted() left out: the list as the caller gave it
sorted_Mutant(s) == s

\* Python's sorted() on a list of integers: the same numbers, ascending
sorted(s) == SortSeq(s, LAMBDA a, b : a < b)

TARGET_MAIN_NUMBERS == sorted(<<2, 18, 35, 41, 46>>)
TARGET_POWERBALL == 1

DrawDates == 0 .. (MaxDates - 1)
SeqNums == {NULL} \cup (1 .. MaxSeq)

\* what a caller may pass as (is_powerball_plus, main_numbers, powerball_number):
\* the target set out of order, the second draw of the main script, a list
\* of main numbers that is too short, and a missing powerball number
Entries == { <<0, <<46, 2, 41, 18, 35>>, 1>>, <<1, <<10, 20, 30, 40, 50>>, 15>>,
             <<0, <<2, 18, 35>>, 1>>, <<1, <<2, 18, 35, 41, 46>>, NULL>> }

\* what random.choice([0, 1]), random.sample(range(1, 51), 5), sorted, and
\* random.randint(1, 20) can give the generator
Samples == { <<0, <<10, 20, 30, 40, 50>>, 15>>, <<1, <<5, 15, 25, 35, 45>>, 20>> }

Idle == [active |-> FALSE, i |-> 0, n |-> 0, current_draw_seq_num |-> 0]

-----------------------------------------------------------------------------
(* Schema: the constraints of create_database *)

\* draw_date declared without UNIQUE
dates_draw_date_conflict_Mutant(tbl, draw_date) == FALSE

\* dates.draw_date TEXT NOT NULL UNIQUE
dates_draw_date_conflict(tbl, draw_date) ==
    \E r \in tbl : r.draw_date = draw_date

\* a UNIQUE under which two NULLs collide
dates_draw_sequence_num_conflict_Mutant(tbl, draw_sequence_num) ==
    \E r \in tbl : r.draw_sequence_num = draw_sequence_num

\* dates.draw_sequence_num INTEGER UNIQUE (NULLs never collide)
dates_draw_sequence_num_conflict(tbl, draw_sequence_num) ==
    /\ draw_sequence_num # NULL
    /\ \E r \in tbl : r.draw_sequence_num = draw_sequence_num

\* date_id declared without UNIQUE
draws_date_id_conflict_Mutant(tbl, id) == FALSE

\* draws.date_id INTEGER NOT NULL UNIQUE
draws_date_id_conflict(tbl, id) ==
    \E r \in tbl : r.date_id = id

\* draws.powerball_num INTEGER NOT NULL
draws_not_null_violated(powerball_number) ==
    powerball_number = NULL

\* FOREIGN KEY (date_id) REFERENCES dates(id), with PRAGMA foreign_keys = ON
draws_foreign_key_violated(dates_tbl, id) ==
    ~ \E r \in dates_tbl : r.id = id

-----------------------------------------------------------------------------
(* add_draw *)

\* INSERT OR REPLACE in place of INSERT OR IGNORE: the rows in the way are
\* deleted and the new row is inserted
insert_or_ignore_dates_Mutant(dates_tbl, seq, draw_date, is_powerball_plus, draw_sequence_num) ==
    LET id == seq.dates + 1
        row == [id |-> id, draw_date |-> draw_date,
                is_powerball_plus |-> is_powerball_plus,
                draw_sequence_num |-> draw_sequence_num]
        kept == {r \in dates_tbl :
                    /\ r.draw_date # draw_date
                    /\ draw_sequence_num = NULL \/ r.draw_sequence_num # draw_sequence_num}
    IN  [dates |-> kept \cup {row},
         sqlite_sequence |-> [seq EXCEPT !.dates = id]]

\* INSERT OR IGNORE INTO dates ...; conn.commit().  A row that would break a
\* UNIQUE constraint is dropped without an error.  The AUTOINCREMENT counter
\* of 'dates' advances on every execution of the statement, ignored or not.
insert_or_ignore_dates(dates_tbl, seq, draw_date, is_powerball_plus, draw_sequence_num) ==
    LET id == seq.dates + 1
        row == [id |-> id, draw_date |-> draw_date,
                is_powerball_plus |-> is_powerball_plus,
                draw_sequence_num |-> draw_sequence_num]
        ignored == \/ dates_draw_date_conflict(dates_tbl, draw_date)
                   \/ dates_draw_sequence_num_conflict(dates_tbl, draw_sequence_num)
    IN  [dates |-> IF ignored THEN dates_tbl ELSE dates_tbl \cup {row},
         sqlite_sequence |-> [seq EXCEPT !.dates = id]]

\* SELECT id FROM dates WHERE draw_date = ?; cursor.fetchone(): the row's id,
\* or NULL when fetchone() returns None
select_date_id(dates_tbl, draw_date) ==
    LET found == {r \in dates_tbl : r.draw_date = draw_date}
    IN  IF found = {} THEN NULL ELSE (CHOOSE r \in found : TRUE).id

\* INSERT INTO draws ...; conn.commit(): the first five of the sorted numbers
insert_draws(draws_tbl, seq, id, sorted_main, powerball_number) ==
    LET row == [id |-> seq.draws + 1, date_id |-> id,
                main |-> SubSeq(sorted_main, 1, 5),
                powerball_num |-> powerball_number]
    IN  [draws |-> draws_tbl \cup {row},
         sqlite_sequence |-> [seq EXCEPT !.draws = seq.draws + 1]]

\* conn.rollback(): back to what the last conn.commit() made durable
rollback(committed) == committed

\* The whole of add_draw, as a function of the store and the arguments: the
\* store it leaves, what it reports, and the ledger identity it resolved.
add_draw(dates_tbl, draws_tbl, seq, draw_date, is_powerball_plus, draw_sequence_num, main_numbers, powerball_number) ==
    LET ins == insert_or_ignore_dates(dates_tbl, seq, draw_date,
                                      is_powerball_plus, draw_sequence_num)
        committed == [dates |-> ins.dates, draws |-> draws_tbl,
                      sqlite_sequence |-> ins.sqlite_sequence]
        id == select_date_id(committed.dates, draw_date)
        sorted_main == sorted(main_numbers)
        failed(e) == rollback(committed) @@
                     [outcome |-> "failed", error |-> e, date_id |-> id]
    IN  IF id = NULL
        THEN \* fetchone()[0] on None
             failed("TypeError")
        ELSE IF Len(sorted_main) < 5
        THEN \* sorted_main[4] out of range
             failed("IndexError")
        ELSE IF draws_not_null_violated(powerball_number)
        THEN failed("IntegrityError")
        ELSE IF draws_date_id_conflict(committed.draws, id)
        THEN \* "UNIQUE constraint failed: draws.date_id": reported, no rollback
             committed @@ [outcome |-> "skipped", error |-> "IntegrityError",
                           date_id |-> id]
        ELSE IF draws_foreign_key_violated(committed.dates, id)
        THEN failed("IntegrityError")
        ELSE LET done == insert_draws(committed.draws, committed.sqlite_sequence,
                                       id, sorted_main, powerball_number)
             IN  [dates |-> committed.dates, draws |-> done.draws,
                  sqlite_sequence |-> done.sqlite_sequence,
                  outcome |-> "success", error |-> "none", date_id |-> id]

-----------------------------------------------------------------------------
(* Queries *)

\* SELECT MAX(draw_sequence_num) FROM dates: NULLs are skipped, NULL if none
RECURSIVE sql_max(_)
sql_max(S) ==
    IF S = {} THEN NULL
    ELSE LET x == CHOOSE y \in S : TRUE
             rest == sql_max(S \ {x})
         IN  IF x = NULL THEN rest
             ELSE IF rest = NULL \/ x > rest THEN x ELSE rest

\* the "else 0" left out: None comes back from an empty ledger
get_max_draw_sequence_num_Mutant(dates_tbl) ==
    sql_max({r.draw_sequence_num : r \in dates_tbl})

get_max_draw_sequence_num(dates_tbl) ==
    LET max_num == sql_max({r.draw_sequence_num : r \in dates_tbl})
    IN  IF max_num # NULL THEN max_num ELSE 0

\* SELECT COUNT(*) FROM draws
get_total_draws_in_db(draws_tbl) == Cardinality(draws_tbl)

\* SELECT COUNT(*) FROM draws WHERE main_num1 = ? AND ... AND powerball_num = ?
count_exact_match(draws_tbl, main, powerball) ==
    Cardinality({r \in draws_tbl :
        /\ r.main[1] = main[1] /\ r.main[2] = main[2] /\ r.main[3] = main[3]
        /\ r.main[4] = main[4] /\ r.main[5] = main[5]
        /\ r.powerball_num = powerball})

analyze_specific_set_occurrence(draws_tbl) ==
    count_exact_match(draws_tbl, TARGET_MAIN_NUMBERS, TARGET_POWERBALL)

-----------------------------------------------------------------------------
(* The state machine *)

\* create_database on a fresh file: two empty tables
Init ==
    /\ dates = {}
    /\ draws = {}
    /\ sqlite_sequence = [dates |-> 0, draws |-> 0]
    /\ sim = Idle
    /\ outcome = "none"
    /\ error = "none"
    /\ date_id = NULL

\* the calls a caller can make: add_draw's arguments
Calls ==
    { [draw_date |-> d, is_powerball_plus |-> e[1], draw_sequence_num |-> s,
       main_numbers |-> e[2], powerball_number |-> e[3]] :
      d \in DrawDates, s \in SeqNums, e \in Entries }

\* what add_draw does with call c in the current state
Result(c) ==
    add_draw(dates, draws, sqlite_sequence, c.draw_date, c.is_powerball_plus,
             c.draw_sequence_num, c.main_numbers, c.powerball_number)

\* one execution of add_draw
AddDraw(c) ==
    LET r == Result(c)
    IN  /\ sqlite_sequence.dates < MaxCalls
        /\ dates' = r.dates
        /\ draws' = r.draws
        /\ sqlite_sequence' = r.sqlite_sequence
        /\ outcome' = r.outcome
        /\ error' = r.error
        /\ date_id' = r.date_id

\* add_draw called directly (the main script, an interactive collector)
RecordDraw ==
    /\ ~ sim.active
    /\ \E c \in Calls : AddDraw(c)
    /\ UNCHANGED sim

\* simulate_and_add_draws(n), up to the loop
SimulateStart ==
    /\ ~ sim.active
    /\ \E n \in 0 .. MaxDates :
           sim' = [active |-> TRUE, i |-> 0, n |-> n,
                   current_draw_seq_num |-> get_max_draw_sequence_num(dates) + 1]
    /\ UNCHANGED <<dates, draws, sqlite_sequence, outcome, error, date_id>>

\* one iteration of its loop
SimulateStep ==
    /\ sim.active
    /\ sim.i < sim.n
    /\ \E e \in Samples :
           AddDraw([draw_date |-> sim.i, is_powerball_plus |-> e[1],
                    draw_sequence_num |-> sim.current_draw_seq_num,
                    main_numbers |-> e[2], powerball_number |-> e[3]])
    /\ sim' = [sim EXCEPT !.i = sim.i + 1,
                          !.current_draw_seq_num = sim.current_draw_seq_num + 1]

\* the loop is over; simulate_and_add_draws returns
SimulateReturn ==
    /\ sim.active
    /\ sim.i = sim.n
    /\ sim' = Idle
    /\ UNCHANGED <<dates, draws, sqlite_sequence, outcome, error, date_id>>

\* the store under its callers
Next == RecordDraw

Spec == Init /\ [][Next]_vars

\* the store under its callers and the synthetic generator
NextSim == RecordDraw \/ SimulateStart \/ SimulateStep \/ SimulateReturn

SpecSim == Init /\ [][NextSim]_vars

-----------------------------------------------------------------------------
(* Vocabulary of the claims *)

\* the store a call leaves
Tables(r) == [dates |-> r.dates, draws |-> r.draws]
Before == [dates |-> dates, draws |-> draws]

\* add_draw's documented preconditions: exactly 5 mutually distinct main
\* numbers in [1,50] and a powerball number in [1,20]
Valid(c) ==
    /\ Len(c.main_numbers) = 5
    /\ \A i \in 1 .. 5 : c.main_numbers[i] \in 1 .. 50
    /\ \A i, j \in 1 .. 5 : i # j => c.main_numbers[i] # c.main_numbers[j]
    /\ c.powerball_number \in 1 .. 20

\* five main numbers and a powerball number
WellFormed(c) ==
    /\ Len(c.main_numbers) = 5
    /\ c.powerball_number # NULL

\* fewer than five main numbers, or no powerball number
Malformed(c) ==
    \/ Len(c.main_numbers) < 5
    \/ c.powerball_number = NULL

\* the date has a row in the ledger / a result row
InLedger(d) == \E l \in dates : l.draw_date = d
HasResult(d) == \E l \in dates : l.draw_date = d /\ \E r \in draws : r.date_id = l.id

\* another ledger row holds the (non-null) sequence number
SequenceNumberHeld(tbl, s) == s # NULL /\ \E l \in tbl : l.draw_sequence_num = s

IsAscending(m) == \A i \in 1 .. (Len(m) - 1) : m[i] <= m[i + 1]

\* the ascending arrangement of each list of main numbers a caller may pass,
\* found by search rather than by sorting
MainLists == {e[2] : e \in Entries \cup Samples}
AscendingOf ==
    [m \in MainLists |->
        CHOOSE s \in [1 .. Len(m) -> {m[i] : i \in 1 .. Len(m)}] :
            /\ IsAscending(s)
            /\ \A i \in 1 .. Len(m) : \E j \in 1 .. Len(m) : s[j] = m[i]]

\* every order in which a caller can supply five numbers
Orders == Permutations(1 .. 5)
Reordered(m, o) == [i \in 1 .. 5 |-> m[o[i]]]

\* sorted() gives one result for all 120 orders of each list of five
SortedIsOrderIndependent ==
    \A m \in MainLists : Len(m) = 5 =>
        \A o \in Orders : sorted(Reordered(m, o)) = AscendingOf[m]

\* a few orders, to push through the whole of add_draw
SomeOrders == { <<5, 4, 3, 2, 1>>, <<2, 3, 4, 5, 1>>, <<2, 1, 3, 4, 5>>, <<1, 2, 3, 5, 4>> }

-----------------------------------------------------------------------------
(* The claims *)

\* C1 (as claimed): a call that ends as "failed" leaves the ledger table and
\* the result table exactly as they were before it; no ledger row created by
\* that call remains.
C1_FailedCallChangesNothing ==
    [][(sqlite_sequence' # sqlite_sequence /\ outcome' = "failed")
          => (dates' = dates /\ draws' = draws)]_vars

\* C2 (as claimed): a call for a date that already has a result row reports
\* "skipped" whatever flag, sequence number, main numbers and bonus it carries,
\* and changes neither table.
C2_DuplicateAlwaysSkipped ==
    \A c \in Calls : HasResult(c.draw_date) =>
        /\ Result(c).outcome = "skipped"
        /\ Tables(Result(c)) = Before

\* C2 (amended): a call for a date that already has a result row never changes
\* the ledger table or the result table (total_count unchanged, the existing row
\* keeps its numbers); it reports "skipped" when it carries five main numbers
\* and a bonus number, and "failed" when it carries fewer than five main numbers
\* or no bonus number.
C2_DuplicateIsNoOp ==
    \A c \in Calls : HasResult(c.draw_date) =>
        LET r == Result(c)
        IN  /\ Tables(r) = Before
            /\ get_total_draws_in_db(r.draws) = get_total_draws_in_db(draws)
            /\ WellFormed(c) => r.outcome = "skipped"
            /\ Malformed(c) => r.outcome = "failed"

\* C2 witness: the last call was skipped, for a date whose result row is there
C2_Witness ==
    /\ outcome = "skipped"
    /\ \E r \in draws : r.date_id = date_id

\* C3: every persisted result row has its five main numbers ascending, and a
\* successful call stores the identical row in whatever order the same five
\* numbers are supplied, so the exact-match count does not depend on that order.
C3_SortInvariant ==
    /\ \A r \in draws : Len(r.main) = 5 /\ IsAscending(r.main)
    /\ SortedIsOrderIndependent
    /\ \A c \in Calls : Valid(c) =>
           LET r == Result(c)
           IN  r.outcome = "success" =>
               \A o \in SomeOrders :
               LET q == Result([c EXCEPT !.main_numbers = Reordered(c.main_numbers, o)])
               IN  /\ q.outcome = "success"
                   /\ q.draws = r.draws
                   /\ count_exact_match(q.draws, AscendingOf[c.main_numbers], c.powerball_number)
                        = count_exact_match(r.draws, AscendingOf[c.main_numbers], c.powerball_number)

\* C3 witness: the target set, supplied out of order, is stored ascending
C3_Witness ==
    /\ outcome = "success"
    /\ \E r \in draws : r.date_id = date_id /\ r.main = <<2, 18, 35, 41, 46>>

\* C4 (as claimed): for all valid inputs and every reachable store, the exact-
\* match count of the call's numbers is exactly 1 higher after record_draw.
C4_CountAlwaysIncreases ==
    \A c \in Calls : Valid(c) =>
        count_exact_match(Result(c).draws, AscendingOf[c.main_numbers], c.powerball_number)
          = count_exact_match(draws, AscendingOf[c.main_numbers], c.powerball_number) + 1

\* C4 (amended): for valid inputs the call succeeds exactly when the date has
\* no result row yet and, if the date is not in the ledger, its sequence number
\* is null or unused; the exact-match count of the call's numbers (given
\* ascending) is then exactly 1 higher, and it is unchanged when the call is
\* skipped or failed.
C4_CountIncreasesOnSuccess ==
    \A c \in Calls : Valid(c) =>
        LET r == Result(c)
            was == count_exact_match(draws, AscendingOf[c.main_numbers], c.powerball_number)
            now == count_exact_match(r.draws, AscendingOf[c.main_numbers], c.powerball_number)
        IN  /\ r.outcome = "success" <=>
                  /\ ~ HasResult(c.draw_date)
                  /\ InLedger(c.draw_date)
                       \/ ~ SequenceNumberHeld(dates, c.draw_sequence_num)
            /\ r.outcome = "success" => now = was + 1
            /\ r.outcome # "success" => now = was

\* C4 witness: a draw of the target numbers was recorded beside another draw
C4_Witness ==
    /\ outcome = "success"
    /\ analyze_specific_set_occurrence(draws) = 1
    /\ get_total_draws_in_db(draws) = 2

\* C5 (as claimed): every ledger row has exactly one result row referencing it.
C5_ExactlyOneResultPerDate ==
    \A l \in dates : Cardinality({r \in draws : r.date_id = l.id}) = 1

\* C6: at most one ledger row exists per date; a call naming a date already in
\* the ledger resolves to that row's identity and leaves the ledger unchanged,
\* whatever flag and sequence number it carries; a call creates at most one
\* ledger row, and the identity it resolves is that of the row of its date.
C6_EnsureDateIdempotent ==
    /\ \A a, b \in dates : a.draw_date = b.draw_date => a = b
    /\ \A c \in Calls :
           LET r == Result(c)
           IN  /\ Cardinality(r.dates) <= Cardinality(dates) + 1
               /\ \A l \in dates : l.draw_date = c.draw_date =>
                      r.date_id = l.id /\ r.dates = dates
               /\ r.date_id # NULL =>
                      \E l \in r.dates : l.id = r.date_id /\ l.draw_date = c.draw_date

\* C6 witness: two calls named the same date, the second was resolved to the
\* one ledger row the first created
C6_Witness ==
    /\ sqlite_sequence.dates = 2
    /\ Cardinality(dates) = 1
    /\ \E l \in dates : l.id = 1 /\ date_id = 1

\* C7 (as claimed): a call for a date not yet in the ledger, with a sequence
\* number another ledger row holds, ends as an integrity failure reported as
\* "failed"; it adds no row, and a later call with a fresh date and sequence
\* number still succeeds.
C7_CollisionIsIntegrityFailure ==
    \A c \in Calls :
        (~ InLedger(c.draw_date)
           /\ SequenceNumberHeld(dates, c.draw_sequence_num)) =>
        LET r == Result(c)
        IN  /\ r.outcome = "failed"
            /\ r.error = "IntegrityError"
            /\ Tables(r) = Before
            /\ \A n \in Calls :
                   (/\ WellFormed(n)
                    /\ \A l \in r.dates : l.draw_date # n.draw_date
                    /\ ~ SequenceNumberHeld(r.dates, n.draw_sequence_num)) =>
                   add_draw(r.dates, r.draws, r.sqlite_sequence, n.draw_date,
                            n.is_powerball_plus, n.draw_sequence_num,
                            n.main_numbers, n.powerball_number).outcome = "success"

\* C8: each result row's date_id is the identity of exactly one ledger row,
\* and no two result rows carry the same date_id.
C8_ReferentialIntegrity ==
    /\ \A r \in draws : Cardinality({l \in dates : l.id = r.date_id}) = 1
    /\ \A a, b \in draws : a.date_id = b.date_id => a = b

\* C8 witness: two result rows, each with its own ledger row
C8_Witness ==
    /\ Cardinality(draws) = 2
    /\ Cardinality(dates) = 2

\* C9: across every step, every ledger row and every result row that exists
\* before the step exists after it with identical field values.
C9_RowsImmutable ==
    [][dates \subseteq dates' /\ draws \subseteq draws']_vars

\* C9 witness: a ledger row and its result row have been through later calls,
\* one of them naming the same date
C9_Witness ==
    /\ sqlite_sequence.dates = 2
    /\ \E l \in dates : l.id = 1 /\ \E r \in draws : r.id = 1 /\ r.date_id = 1
    /\ date_id = 1

\* C10: max_sequence_number is 0 when the ledger holds no non-null sequence
\* number and the greatest non-null one otherwise; the generator, which starts
\* one above it and counts up, never passes add_draw a sequence number the
\* ledger holds.
C10_MaxSequenceNumber ==
    LET held == {l.draw_sequence_num : l \in dates} \ {NULL}
        m == get_max_draw_sequence_num(dates)
    IN  /\ held = {} => m = 0
        /\ held # {} => m \in held /\ \A s \in held : s <= m
        /\ sim.active => sim.current_draw_seq_num \notin held
        /\ sim.active => \A s \in held : s < sim.current_draw_seq_num

\* C10 witness: the generator runs on a ledger that held a caller's sequence
\* number, and has recorded a draw of its own
C10_Witness ==
    /\ sim.active
    /\ sim.i >= 1
    /\ outcome = "success"
    /\ \E a, b \in dates :
           /\ a.draw_sequence_num # NULL
           /\ b.draw_sequence_num = a.draw_sequence_num + 1
           /\ b.draw_sequence_num = sim.current_draw_seq_num - 1

====
